---- MODULE Spec2Model ----
(***************************************************************************)
(* Model of the table cell pipeline (components/Table/Cell.tsx:            *)
(* validateCellType, resolveCell, getCellValue) and of the pagination      *)
(* control (components/Table/PaginationControls.tsx).                      *)
(*                                                                         *)
(* JavaScript values are tagged records.  Cell data strings are sequences  *)
(* of one-character strings, so that toUpperCase, number formatting and    *)
(* join act character by character.  Cell type tags (CellType) and error   *)
(* messages are TLA+ strings: the code only compares and concatenates      *)
(* them.                                                                   *)
(***************************************************************************)
EXTENDS Integers, Sequences, FiniteSets, TLC

VARIABLES
    pc,               \* position of the cell pipeline: "input" | "resolved" | "accessed"
    raw,              \* the caller's raw value handed to resolveCell
    declared,         \* the column's declared cell type (or undefined)
    resolved,         \* what resolveCell returned
    warnings,         \* number of console.warn calls made by resolveCell
    out,              \* what getCellValue returned
    ctype,            \* argument of validateCellType
    validated,        \* outcome of validateCellType: a return value or a thrown Error
    nRows,            \* table.getPrePaginationRowModel().rows.length
    pageSizeOptions,  \* useMemo(__generatePageSizeOptions(nRows))
    mounted,          \* whether PaginationControls has rendered
    tablePageIndex,   \* table.getState().pagination.pageIndex
    tablePageSize,    \* table.getState().pagination.pageSize
    pageSize,         \* the control's useState copy of the page size
    minDisplayedRow,  \* rendered "<min> - <max> of <nRows>"
    maxDisplayedRow

vars == <<pc, raw, declared, resolved, warnings, out, ctype, validated, nRows,
          pageSizeOptions, mounted, tablePageIndex, tablePageSize, pageSize,
          minDisplayedRow, maxDisplayedRow>>

cellVars == <<pc, raw, declared, resolved, warnings, out>>
validateVars == <<ctype, validated>>
pageVars == <<nRows, pageSizeOptions, mounted, tablePageIndex, tablePageSize,
              pageSize, minDisplayedRow, maxDisplayedRow>>

(***************************************************************************)
(* Bounds of the model.                                                    *)
(***************************************************************************)
MaxCells == 2       \* longest array of cells
MaxNum == 11        \* largest numeric cell value
MaxRows == 620      \* largest row count given to __generatePageSizeOptions
MaxPagedRows == 45  \* largest row count of a paginated table that is navigated

(***************************************************************************)
(* JavaScript values.                                                      *)
(***************************************************************************)
Undefined == [k |-> "undefined"]
Null == [k |-> "null"]
Str(s) == [k |-> "string", s |-> s]
Num(n) == [k |-> "number", n |-> n]
Bool(b) == [k |-> "boolean", b |-> b]
Obj(o) == [k |-> "object", o |-> o]
Arr(a) == [k |-> "array", a |-> a]

EmptyObject == [f \in {} |-> Undefined]

\* o[f]: a missing property reads as undefined
Prop(o, f) == IF f \in DOMAIN o THEN o[f] ELSE Undefined

\* ToBoolean: false, 0, "", null and undefined are falsy
Truthy(v) ==
    CASE v.k = "undefined" -> FALSE
      [] v.k = "null" -> FALSE
      [] v.k = "boolean" -> v.b
      [] v.k = "number" -> v.n # 0
      [] v.k = "string" -> v.s # <<>>
      [] OTHER -> TRUE

IsArray(v) == v.k = "array"

\* Object.assign(target, source): source's own properties overwrite target's
ObjectAssign(target, source) ==
    [f \in (DOMAIN target) \cup (DOMAIN source) |->
        IF f \in DOMAIN source THEN source[f] ELSE target[f]]

LowerChars == <<"a","b","c","d","e","f","g","h","i","j","k","l","m",
                "n","o","p","q","r","s","t","u","v","w","x","y","z">>
UpperChars == <<"A","B","C","D","E","F","G","H","I","J","K","L","M",
                "N","O","P","Q","R","S","T","U","V","W","X","Y","Z">>

toUpperCaseChar(c) ==
    IF \E i \in DOMAIN LowerChars : LowerChars[i] = c
    THEN UpperChars[CHOOSE i \in DOMAIN LowerChars : LowerChars[i] = c]
    ELSE c

toLowerCaseChar(c) ==
    IF \E i \in DOMAIN UpperChars : UpperChars[i] = c
    THEN LowerChars[CHOOSE i \in DOMAIN UpperChars : UpperChars[i] = c]
    ELSE c

\* String.prototype.toUpperCase
toUpperCase(s) == [i \in DOMAIN s |-> toUpperCaseChar(s[i])]

Digits == <<"0","1","2","3","4","5","6","7","8","9">>

RECURSIVE NatToString(_)
NatToString(n) ==
    IF n < 10 THEN <<Digits[n + 1]>>
    ELSE NatToString(n \div 10) \o <<Digits[(n % 10) + 1]>>

\* String(v) as Array.prototype.join applies it: null and undefined give ""
ToJoinString(v) ==
    CASE v.k = "undefined" -> <<>>
      [] v.k = "null" -> <<>>
      [] v.k = "string" -> v.s
      [] v.k = "boolean" -> IF v.b THEN <<"t","r","u","e">> ELSE <<"f","a","l","s","e">>
      [] v.k = "number" -> IF v.n < 0 THEN <<"-">> \o NatToString(-v.n)
                           ELSE NatToString(v.n)

RECURSIVE JoinFrom(_, _, _)
JoinFrom(strs, sep, i) ==
    IF i > Len(strs) THEN <<>>
    ELSE IF i = Len(strs) THEN strs[i]
    ELSE strs[i] \o sep \o JoinFrom(strs, sep, i + 1)

\* Array.prototype.join
join(values, sep) == JoinFrom([i \in DOMAIN values |-> ToJoinString(values[i])], sep, 1)

(***************************************************************************)
(* Cell.tsx                                                                *)
(***************************************************************************)
NA_STRINGS == { <<"N","A">>, <<"N","/","A">>, <<"N","U","L","L">>, <<".">>, <<>> }
DEFAULT_NA_STRING == Str(<<"N","A">>)

CELL_TYPE_VALIDATION_REFERENCE ==
    {"boolean", "abstract", "float", "text", "annotated_text", "badge", "link",
     "percentage_bar"}

\* an optional CellType / string argument
NoType == [def |-> FALSE]
SomeType(t) == [def |-> TRUE, s |-> t]

Returned(v) == [ok |-> TRUE, value |-> v]
\* new Error(a + b + c + d): the message is kept as the operands of the
\* concatenation, in order (a grave accent cannot be written in a TLA+ string)
Thrown(msg) == [ok |-> FALSE, error |-> msg]
BACKTICK == "<grave accent>"
\* validateCellType has not been called yet
Pending == [pending |-> TRUE]

validateCellType_unchecked(c) ==
    IF c = NoType THEN Returned("abstract") ELSE Returned(c.s)

validateCellType(c) ==
    IF c = NoType THEN Returned("abstract")
    ELSE IF c.s \in CELL_TYPE_VALIDATION_REFERENCE THEN Returned(c.s)
    ELSE Thrown(<<"Invalid data type ", BACKTICK, c.s, BACKTICK>>)

__isNull(value) ==
    IF Truthy(value) /\ value.k = "string" /\ toUpperCase(value.s) \in NA_STRINGS
    THEN TRUE
    ELSE value = Null \/ value = Undefined

\* @common/utils: own-property test, property read, the structured-value
\* classifier (a non-null object, not a primitive) and the deep copy, which on
\* values without identity returns an equal value
_hasOwnProperty(key, object) == key \in DOMAIN object
_get(key, object) == Prop(object, key)
_isJSON(value) == value.k = "object"
_deepCopy(value) == value

__resolveValue_falsyAsNull(props) ==
    LET naString == IF _hasOwnProperty("naString", props) THEN props.naString
                    ELSE DEFAULT_NA_STRING
    IN  IF ~Truthy(Prop(props, "value")) \/ __isNull(Prop(props, "value"))
        THEN naString ELSE _get("value", props)

__resolveValue(props) ==
    LET naString == IF _hasOwnProperty("naString", props) THEN props.naString
                    ELSE DEFAULT_NA_STRING
    IN  IF __isNull(Prop(props, "value")) THEN naString ELSE _get("value", props)

__resolveBooleanValue(props) ==
    IF __isNull(Prop(props, "value"))
    THEN IF Truthy(Prop(props, "nullAsFalse"))
         THEN IF Prop(props, "falseStr") # Undefined THEN props.falseStr
              ELSE Str(<<"F","A","L","S","E">>)
         ELSE __resolveValue(props)
    ELSE IF Prop(props, "value") = Bool(TRUE)
         THEN IF Prop(props, "trueStr") # Undefined THEN props.trueStr
              ELSE Str(<<"T","R","U","E">>)
         ELSE IF Prop(props, "falseStr") # Undefined THEN props.falseStr
              ELSE Str(<<"F","A","L","S","E">>)

RECURSIVE getCellValue(_)

getCellValue_tightDelimiter(cellProps) ==
    IF IsArray(cellProps)
    THEN Str(join([i \in DOMAIN cellProps.a |-> getCellValue(cellProps.a[i])],
                  <<"/","/">>))
    ELSE __resolveValue(cellProps.o)

getCellValue(cellProps) ==
    IF IsArray(cellProps)
    THEN Str(join([i \in DOMAIN cellProps.a |-> getCellValue(cellProps.a[i])],
                  <<" ","/","/"," ">>))
    ELSE IF "type" \in DOMAIN cellProps.o /\ cellProps.o.type = "boolean"
         THEN __resolveBooleanValue(cellProps.o)
         ELSE __resolveValue(cellProps.o)

RECURSIVE resolveCell(_, _)
resolveCell(cell, cellType) ==
    IF IsArray(cell)
    THEN Arr([i \in DOMAIN cell.a |-> resolveCell(cell.a[i], cellType)])
    ELSE LET declaredOrAbstract == IF cellType = NoType THEN "abstract" ELSE cellType.s
             resolvedCellType ==
                 IF _isJSON(cell) /\ declaredOrAbstract = "abstract" THEN "text"
                 ELSE declaredOrAbstract
             resolvedCell ==
                 IF _isJSON(cell) THEN _deepCopy(cell).o
                 ELSE ObjectAssign([value |-> cell], EmptyObject)
         IN  Obj(ObjectAssign([type |-> resolvedCellType], resolvedCell))

\* the console.warn calls of resolveCell
RECURSIVE SumWarnings(_, _, _)
RECURSIVE resolveCellWarnings(_, _)
SumWarnings(cells, cellType, i) ==
    IF i > Len(cells) THEN 0
    ELSE resolveCellWarnings(cells[i], cellType) + SumWarnings(cells, cellType, i + 1)

resolveCellWarnings(cell, cellType) ==
    IF IsArray(cell) THEN SumWarnings(cell.a, cellType, 1)
    ELSE IF _isJSON(cell) /\ (cellType = NoType \/ cellType.s = "abstract") THEN 1
    ELSE 0

(***************************************************************************)
(* Inputs of the cell pipeline.                                            *)
(***************************************************************************)
\* every spelling of t in upper and lower case letters
CaseVariants(t) ==
    { [i \in DOMAIN t |-> IF i \in L THEN toLowerCaseChar(t[i]) ELSE t[i]] :
        L \in SUBSET (DOMAIN t) }

SentinelStrings == UNION { CaseVariants(t) : t \in NA_STRINGS }

OtherStrings ==
    { <<"x">>, <<"N">>, <<"N","A","N">>, <<"N","A"," ">>, <<" ">>, <<"0">>,
      <<"n","o","n","e">>, <<"t","r","u","e">> }

Numbers == (-1)..MaxNum

\* BasicType | null | undefined
Scalars ==
    { Str(s) : s \in SentinelStrings \cup OtherStrings }
        \cup { Num(n) : n \in Numbers }
        \cup { Bool(TRUE), Bool(FALSE), Null, Undefined }

\* type NAString
NAStringValues == { Str(t) : t \in NA_STRINGS }

OptionalField(name, values) == { EmptyObject } \cup { name :> v : v \in values }

\* Record<string, BasicType>: structured raw values, with the optional fields
\* the Cell variants read
StructuredValues ==
    { Obj([value |-> v] @@ na @@ ty @@ ts @@ fs @@ nf) :
        v \in Scalars,
        na \in OptionalField("naString", NAStringValues),
        ty \in OptionalField("type", {"abstract", "badge"}),
        ts \in OptionalField("trueStr", {Str(<<"Y","e","s">>)}),
        fs \in OptionalField("falseStr", {Str(<<"N","o">>)}),
        nf \in OptionalField("nullAsFalse", {Bool(TRUE), Bool(FALSE)}) }

ArrayElements ==
    { Str(<<"x">>), Str(<<"n","a">>), Num(0), Num(MaxNum), Bool(FALSE), Null,
      Obj([value |-> Str(<<>>), naString |-> Str(<<".">>)]),
      Obj([value |-> Null, nullAsFalse |-> Bool(TRUE), falseStr |-> Str(<<"N","o">>)]),
      Obj([value |-> Bool(TRUE), trueStr |-> Str(<<"Y","e","s">>)]) }

ArrayValues ==
    { Arr(a) : a \in UNION { [1..n -> ArrayElements] : n \in 0..MaxCells } }

RawValues == Scalars \cup StructuredValues \cup ArrayValues

DeclaredTypes == { NoType } \cup { SomeType(t) : t \in CELL_TYPE_VALIDATION_REFERENCE }

(***************************************************************************)
(* The cell pipeline of one render pass: resolveCell, then the accessor.   *)
(***************************************************************************)
ValidateIdle == ctype = NoType /\ validated = Pending

PageIdle ==
    /\ nRows = 0
    /\ pageSizeOptions = <<>>
    /\ mounted = FALSE
    /\ tablePageIndex = 0
    /\ tablePageSize = 10
    /\ pageSize = 0
    /\ minDisplayedRow = 0
    /\ maxDisplayedRow = 0

CellIdle ==
    /\ pc = "input"
    /\ raw = Undefined
    /\ declared = NoType
    /\ resolved = Undefined
    /\ warnings = 0
    /\ out = Undefined

Init ==
    /\ pc = "input"
    /\ raw \in RawValues
    /\ declared \in DeclaredTypes
    /\ resolved = Undefined
    /\ warnings = 0
    /\ out = Undefined
    /\ ValidateIdle
    /\ PageIdle

ResolveCell ==
    /\ pc = "input"
    /\ resolved' = resolveCell(raw, declared)
    /\ warnings' = resolveCellWarnings(raw, declared)
    /\ pc' = "resolved"
    /\ UNCHANGED <<raw, declared, out, validateVars, pageVars>>

GetCellValue ==
    /\ pc = "resolved"
    /\ out' = getCellValue(resolved)
    /\ pc' = "accessed"
    /\ UNCHANGED <<raw, declared, resolved, warnings, validateVars, pageVars>>

Next == ResolveCell \/ GetCellValue

Spec == Init /\ [][Next]_vars

(***************************************************************************)
(* validateCellType on a column's type string.                             *)
(***************************************************************************)
TypePrefixes ==
    {"", "annotated_", "percentage_", "Annotated_", "bool", "abstract", "badge_",
     "x", " ", "bogus"}
TypeSuffixes ==
    {"", "text", "bar", "badge", "link", "float", "boolean", "ean", "Text",
     "string", "undefined", "abstract"}

CTypeInputs ==
    { NoType } \cup { SomeType(a \o b) : a \in TypePrefixes, b \in TypeSuffixes }

InitValidate ==
    /\ ctype \in CTypeInputs
    /\ validated = Pending
    /\ CellIdle
    /\ PageIdle

ValidateCellType ==
    /\ validated = Pending
    /\ validated' = validateCellType(ctype)
    /\ UNCHANGED <<ctype, cellVars, pageVars>>

NextValidate == ValidateCellType

SpecValidate == InitValidate /\ [][NextValidate]_vars

(***************************************************************************)
(* PaginationControls.tsx                                                  *)
(***************************************************************************)
\* lodash.range(start, end, step), step > 0
range(start, end, step) ==
    LET n == IF end > start THEN (end - start + step - 1) \div step ELSE 0
    IN  [i \in 1..n |-> start + (i - 1) * step]

\* Math.ceil(nRows / 10) * 10, nRows a row count
nearestTenthOf(rows) == ((rows + 9) \div 10) * 10

__generatePageSizeOptions_rangeExcludesEnd(rows) ==
    LET nearestTenth == nearestTenthOf(rows)
    IN  IF nearestTenth >= 500 THEN <<10, 20, 30, 40, 50, 100, 500>>
        ELSE IF nearestTenth >= 100 THEN <<10, 20, 30, 40, 50, 100>>
        ELSE IF nearestTenth >= 50 THEN <<10, 20, 30, 40, 50, rows>>
        ELSE IF nearestTenth >= 10 /\ rows >= 10
             THEN Append(range(10, nearestTenth, 10), rows)
        ELSE <<rows>>

__generatePageSizeOptions(rows) ==
    LET nearestTenth == nearestTenthOf(rows)
    IN  IF nearestTenth >= 500 THEN <<10, 20, 30, 40, 50, 100, 500>>
        ELSE IF nearestTenth >= 100 THEN <<10, 20, 30, 40, 50, 100>>
        ELSE IF nearestTenth >= 50 THEN <<10, 20, 30, 40, 50, rows>>
        ELSE IF nearestTenth >= 10 /\ rows >= 10
             THEN Append(range(10, nearestTenth + 10, 10), rows)
        ELSE <<rows>>

InitOptions ==
    /\ nRows \in 0..MaxRows
    /\ pageSizeOptions = <<>>
    /\ mounted = FALSE
    /\ tablePageIndex = 0
    /\ tablePageSize = 10
    /\ pageSize = 0
    /\ minDisplayedRow = 0
    /\ maxDisplayedRow = 0
    /\ CellIdle
    /\ ValidateIdle

GeneratePageSizeOptions ==
    /\ pageSizeOptions = <<>>
    /\ pageSizeOptions' = __generatePageSizeOptions(nRows)
    /\ UNCHANGED <<nRows, mounted, tablePageIndex, tablePageSize, pageSize,
                   minDisplayedRow, maxDisplayedRow, cellVars, validateVars>>

NextOptions == GeneratePageSizeOptions

SpecOptions == InitOptions /\ [][NextOptions]_vars

(***************************************************************************)
(* The mounted control over the table's pagination state.                  *)
(***************************************************************************)
\* table.setPageSize of @tanstack/react-table: the page size is at least 1 and
\* the page index is moved to keep the top row on the page
tableSetPageSize(pagination, pSize) ==
    LET size == IF pSize < 1 THEN 1 ELSE pSize
    IN  [pageIndex |-> (pagination.pageSize * pagination.pageIndex) \div size,
         pageSize |-> size]

\* table.getPageCount()
tableGetPageCount(rows, size) == (rows + size - 1) \div size

tableGetCanPreviousPage(pagination) == pagination.pageIndex > 0

tableGetCanNextPage(rows, pagination) ==
    /\ tableGetPageCount(rows, pagination.pageSize) # 0
    /\ pagination.pageIndex < tableGetPageCount(rows, pagination.pageSize) - 1

\* one render of the control: the displayed range, from the table's page index
\* and the control's own page size
Render(pagination, localPageSize) ==
    LET minRow == pagination.pageIndex * localPageSize + 1
        maxRow == minRow + localPageSize - 1
    IN  /\ minDisplayedRow' = minRow
        /\ maxDisplayedRow' = IF maxRow > nRows THEN nRows ELSE maxRow

TablePagination == [pageIndex |-> tablePageIndex, pageSize |-> tablePageSize]

\* page sizes the table is created with, and sizes set on it by other code
InitialPageSizes == {10, 25}
ExternalPageSizes == {5, 10, 20}

InitPage ==
    /\ nRows \in 0..MaxPagedRows
    /\ pageSizeOptions = <<>>
    /\ mounted = FALSE
    /\ tablePageIndex = 0
    /\ tablePageSize \in InitialPageSizes
    /\ pageSize = 0
    /\ minDisplayedRow = 0
    /\ maxDisplayedRow = 0
    /\ CellIdle
    /\ ValidateIdle

\* first render: useState takes the table's page size, useMemo the options
Mount ==
    /\ ~mounted
    /\ mounted' = TRUE
    /\ pageSize' = tablePageSize
    /\ pageSizeOptions' = __generatePageSizeOptions(nRows)
    /\ Render(TablePagination, tablePageSize)
    /\ UNCHANGED <<nRows, tablePageIndex, tablePageSize, cellVars, validateVars>>

\* the select's onChange: onChangePageSize(Number(e.target.value))
OnChangePageSize ==
    /\ mounted
    /\ Len(pageSizeOptions) > 1
    /\ \E i \in DOMAIN pageSizeOptions :
         LET pSize == pageSizeOptions[i]
             next == tableSetPageSize(TablePagination, pSize)
         IN  /\ tablePageIndex' = next.pageIndex
             /\ tablePageSize' = next.pageSize
             /\ pageSize' = pSize
             /\ Render(next, pSize)
    /\ UNCHANGED <<nRows, pageSizeOptions, mounted, cellVars, validateVars>>

PreviousPage ==
    /\ mounted
    /\ tableGetCanPreviousPage(TablePagination)
    /\ tablePageIndex' = tablePageIndex - 1
    /\ Render([TablePagination EXCEPT !.pageIndex = tablePageIndex - 1], pageSize)
    /\ UNCHANGED <<nRows, pageSizeOptions, mounted, tablePageSize, pageSize,
                   cellVars, validateVars>>

NextPage ==
    /\ mounted
    /\ tableGetCanNextPage(nRows, TablePagination)
    /\ tablePageIndex' = tablePageIndex + 1
    /\ Render([TablePagination EXCEPT !.pageIndex = tablePageIndex + 1], pageSize)
    /\ UNCHANGED <<nRows, pageSizeOptions, mounted, tablePageSize, pageSize,
                   cellVars, validateVars>>

\* table.setPageSize called by other code; the control renders again with the
\* page size its useState holds
TableSetPageSize ==
    /\ mounted
    /\ \E pSize \in ExternalPageSizes :
         LET next == tableSetPageSize(TablePagination, pSize)
         IN  /\ tablePageIndex' = next.pageIndex
             /\ tablePageSize' = next.pageSize
             /\ Render(next, pageSize)
    /\ UNCHANGED <<nRows, pageSizeOptions, mounted, pageSize, cellVars, validateVars>>

NextPagination == Mount \/ OnChangePageSize \/ PreviousPage \/ NextPage \/ TableSetPageSize

SpecPage == InitPage /\ [][NextPagination]_vars

(***************************************************************************)
(* The stated properties.                                                  *)
(***************************************************************************)
\* the NA sentinels as the specification lists them
SentinelList == << <<"N","A">>, <<"N","/","A">>, <<"N","U","L","L">>, <<".">>, <<>> >>

\* s spells one of the sentinels, each letter in either case
IsSentinelAnyCase(s) ==
    \E j \in DOMAIN SentinelList :
        /\ Len(s) = Len(SentinelList[j])
        /\ \A i \in 1..Len(s) :
              \/ s[i] = SentinelList[j][i]
              \/ s[i] = toLowerCaseChar(SentinelList[j][i])

\* null, undefined or an NA sentinel
CountsAsNull(v) ==
    \/ v = Null
    \/ v = Undefined
    \/ (v.k = "string" /\ IsSentinelAnyCase(v.s))

\* the cell's naString when it declares one, "NA" otherwise
NullSubstitute(o) ==
    IF "naString" \in DOMAIN o THEN o.naString ELSE Str(<<"N","A">>)

Vocabulary ==
    {"boolean", "abstract", "float", "text", "annotated_text", "badge", "link",
     "percentage_bar"}

\* C1: getCellValue of a non-boolean cell whose value is null, undefined or an
\* NA sentinel in any letter case returns the cell's naString when it declares
\* one and "NA" otherwise.
C1_SentinelIsSubstituted ==
    (/\ pc = "accessed"
     /\ resolved.k = "object"
     /\ resolved.o.type # "boolean"
     /\ CountsAsNull(resolved.o.value))
        => out = NullSubstitute(resolved.o)

\* C2: resolveCell of a structured value with no declared type, or with
\* declared type "abstract", warns and returns a cell of type "text"; no cell
\* resolved from a structured value has type "abstract".
C2_StructuredNeverAbstract ==
    (pc # "input" /\ raw.k = "object")
        => /\ (declared = NoType \/ declared = SomeType("abstract"))
                => (warnings = 1 /\ resolved.o.type = "text")
           /\ resolved.o.type # "abstract"

\* C3: validateCellType returns "abstract" for undefined, returns a vocabulary
\* string unchanged, and for every other string throws an error whose message
\* names the string; it never returns a value outside the vocabulary.
C3_ValidateCellType ==
    validated # Pending
        => /\ ctype = NoType => validated = Returned("abstract")
           /\ (ctype # NoType /\ ctype.s \in Vocabulary)
                => validated = Returned(ctype.s)
           /\ (ctype # NoType /\ ctype.s \notin Vocabulary)
                => /\ ~validated.ok
                   /\ \E i \in DOMAIN validated.error : validated.error[i] = ctype.s
           /\ validated.ok => validated.value \in Vocabulary

C3_Witness ==
    /\ validated # Pending
    /\ ctype = SomeType("bogus")
    /\ ~validated.ok

\* C4: getCellValue of a boolean cell: a null value gives falseStr (default
\* "FALSE") when nullAsFalse is set and the null substitute when it is not; a
\* non-null value gives trueStr (default "TRUE") if it is true and falseStr
\* (default "FALSE") otherwise.
C4_BooleanPolicy ==
    (/\ pc = "accessed"
     /\ resolved.k = "object"
     /\ resolved.o.type = "boolean")
        => LET o == resolved.o
               trueStr == IF "trueStr" \in DOMAIN o THEN o.trueStr
                          ELSE Str(<<"T","R","U","E">>)
               falseStr == IF "falseStr" \in DOMAIN o THEN o.falseStr
                           ELSE Str(<<"F","A","L","S","E">>)
               nullAsFalse == "nullAsFalse" \in DOMAIN o /\ o.nullAsFalse = Bool(TRUE)
           IN  out = IF CountsAsNull(o.value)
                     THEN IF nullAsFalse THEN falseStr ELSE NullSubstitute(o)
                     ELSE IF o.value = Bool(TRUE) THEN trueStr ELSE falseStr

\* C5: for every string, number or boolean v that is not an NA sentinel in any
\* letter case, getCellValue(resolveCell(v, "text")) is v.
C5_TextRoundTrip ==
    (/\ pc = "accessed"
     /\ declared = SomeType("text")
     /\ raw.k \in {"string", "number", "boolean"}
     /\ ~(raw.k = "string" /\ IsSentinelAnyCase(raw.s)))
        => out = raw

C5_Witness ==
    /\ pc = "accessed"
    /\ declared = SomeType("text")
    /\ raw = Num(0)
    /\ resolved = Obj([type |-> "text", value |-> Num(0)])
    /\ out = Num(0)

\* the least multiple of ten that is at least n
RoundedUpToTen(n) == CHOOSE m \in n..(n + 9) : m % 10 = 0

\* C6: the page-size options follow the tiered rule on the row count rounded up
\* to the next multiple of ten: the fixed lists from 500 and from 100, the
\* tens to 50 and the row count from 50, the multiples of ten up to the rounded
\* count and then the row count from 10 rows, and the row count alone below.
C6_TieredOptions ==
    pageSizeOptions # <<>>
        => LET rounded == RoundedUpToTen(nRows)
               opts == pageSizeOptions
           IN  IF rounded >= 500 THEN opts = <<10, 20, 30, 40, 50, 100, 500>>
               ELSE IF rounded >= 100 THEN opts = <<10, 20, 30, 40, 50, 100>>
               ELSE IF rounded >= 50 THEN opts = <<10, 20, 30, 40, 50, nRows>>
               ELSE IF nRows >= 10
                    THEN /\ Len(opts) = (rounded \div 10) + 1
                         /\ \A i \in 1..(rounded \div 10) : opts[i] = 10 * i
                         /\ opts[Len(opts)] = nRows
               ELSE opts = <<nRows>>

C6_Witness == nRows = 37 /\ pageSizeOptions = <<10, 20, 30, 40, 37>>

\* C7: the displayed row range is that of the table's current page index and
\* page size, and the control's own page size equals the table's.
C7_RangeFollowsTable ==
    mounted
        => /\ pageSize = tablePageSize
           /\ minDisplayedRow = tablePageIndex * tablePageSize + 1
           /\ maxDisplayedRow =
                IF tablePageIndex * tablePageSize + tablePageSize < nRows
                THEN tablePageIndex * tablePageSize + tablePageSize
                ELSE nRows

\* where the i-th element's text starts in the joined string
RECURSIVE PartStart(_, _)
PartStart(parts, i) ==
    IF i = 1 THEN 1 ELSE PartStart(parts, i - 1) + Len(parts[i - 1]) + 4

C9_TypeIsDeclared ==
    (/\ pc # "input"
     /\ declared # NoType
     /\ declared.s # "abstract"
     /\ raw.k # "array")
        => IF raw.k = "object"
           THEN resolved = Obj([f \in (DOMAIN raw.o) \cup {"type"} |->
                                   IF f = "type" THEN declared.s ELSE raw.o[f]])
           ELSE resolved = Obj([type |-> declared.s, value |-> raw])

\* C10: the page-size options hold no value twice and only positive sizes.
C10_DistinctPositiveOptions ==
    /\ \A i, j \in DOMAIN pageSizeOptions :
          pageSizeOptions[i] = pageSizeOptions[j] => i = j
    /\ \A i \in DOMAIN pageSizeOptions : pageSizeOptions[i] > 0

====
